---- MODULE Spec2Model ----
(***************************************************************************)
(* plua2: the asyncio runtime that funnels timers and callbacks into one   *)
(* Lua engine (src/plua2/runtime.py), the engine entry points              *)
(* (src/plua2/interpreter.py) and the refresh-states event buffer          *)
(* (src/plua2/luafuns_lib.py).                                             *)
(*                                                                         *)
(* Granularity.  The runtime lives on one asyncio event-loop thread: a     *)
(* task runs from one suspension point (an await that really yields) to    *)
(* the next without interleaving with any other task of that loop.  One    *)
(* action is one such run.  An engine invocation is split into its entry   *)
(* and its return, because the script it runs calls back into the runtime  *)
(* (python_timer, python_cancel_timer, queue_lua_callback) and because     *)
(* other OS threads keep running meanwhile.  `cur` says who holds the      *)
(* event-loop thread.  asyncio.Semaphore and asyncio.Queue are modelled as *)
(* CPython 3.11 implements them.                                           *)
(***************************************************************************)
EXTENDS Integers, Sequences, FiniteSets, TLC

\* ------------------------------------------------------------------ bounds
MaxEvents == 2      \* python_timer and queue_lua_callback calls in one run
MaxLoops == 2       \* dispatch loop tasks created in one run
MaxAddEvents == 1   \* addEvent calls made by the polling worker
MaxWakes == 2       \* status checks made by run_forever in one run
MaxWorkers == 2     \* polling threads started in one run
MaxFill == 1002     \* addEventFromLua calls in a run that fills the event buffer

\* The inputs of the operations.
Ids == {1, 2}       \* timer and callback ids
Delays == {1}       \* delays, in clock ticks
Payloads == {"data"}
NoDuration == -1               \* duration=None
Durations == {NoDuration, 0, 1, 2}   \* the duration argument of start(), in seconds
NoTask == 0
Monitor == MaxLoops + 1   \* value of cur while the run monitor's hook is in the engine

VARIABLES
    timer_tasks,     \* runtime.py:38   id -> index into tasks, NoTask when the id is absent
    tasks,           \* the asyncio tasks made by create_timer, in creation order
    callback_queue,  \* runtime.py:35   asyncio.Queue of CallbackData
    sem_value,       \* runtime.py:29   timer_semaphore._value
    sem_waiters,     \* timer_semaphore._waiters: futures of the loops suspended in acquire()
    getters,         \* callback_queue._getters: futures of the loops suspended in get()
    loops,           \* the asyncio tasks running run_timer_callbacks_loop, in creation order
    callback_task,   \* runtime.py:30   index into loops, NoTask for None
    put_tasks,       \* the _queue_callback tasks made by ensure_future that have not run yet
    cur,             \* holder of the event-loop thread: 0 none, l a loop task, Monitor
    inflight,        \* calls made on the engine handle that have not returned
    workers,         \* the threads pollRefreshStates has started, in creation order
    refresh_thread,  \* luafuns_lib.py:703 _refresh_thread: index into workers, 0 for None
    hook_defined,    \* whether the script defined _PY.newRefreshStatesEvent
    event_count,     \* luafuns_lib.py:706 _event_count
    events,          \* luafuns_lib.py:705 _events
    refresh_running, \* luafuns_lib.py:704 _refresh_running
    stop_refresh,    \* history: what stopRefreshStates returned since the last pollRefreshStates
    run,             \* start(): its position, the monitor task it made, the seconds slept
    events_lock,     \* luafuns_lib.py:707 _events_lock: the thread that holds it
    lua_add,         \* the event-loop thread inside addEvent: "idle", or the event it adds
    poll_last,       \* the script's polling of getEvents: the 'last' it was given
    received,        \* history: the counters of the entries getEvents gave the script
    subs,            \* history: one record per queue_lua_callback call
    raised,          \* history: an engine invocation made by a dispatch loop has raised
    dup_create       \* history: create_timer was called with an id that was in timer_tasks

vars == <<timer_tasks, tasks, callback_queue, sem_value, sem_waiters, getters, loops,
          callback_task, put_tasks, cur, inflight, workers, refresh_thread, hook_defined,
          event_count, events, refresh_running, stop_refresh, run, events_lock, lua_add,
          poll_last, received, subs, raised, dup_create>>

rtvars == <<timer_tasks, tasks, callback_queue, sem_value, sem_waiters, getters, loops,
            callback_task, put_tasks>>
histvars == <<subs, raised, dup_create>>
workervars == <<workers, refresh_thread, hook_defined, event_count, events, refresh_running,
                stop_refresh, events_lock, lua_add, poll_last, received>>

\* ----------------------------------------------------------------- helpers
Range(s) == {s[i] : i \in 1..Len(s)}

RemoveAt(s, i) == SubSeq(s, 1, i - 1) \o SubSeq(s, i + 1, Len(s))

\* CallbackData (runtime.py:13-18); src is a history tag naming the timer task
\* or the queue_lua_callback call that produced the entry.
CallbackData(type, callback_id, data, src) ==
    [type |-> type, callback_id |-> callback_id, data |-> data, src |-> src]

NoneData == "None"


NoEvent == CallbackData("none", 0, NoneData, 0)

\* A timer task: the coroutine timer_task() of create_timer (runtime.py:56-88).
\*   st            "new" (created, first step not run), "sleeping" (in asyncio.sleep), "done"
\*   remaining     clock ticks left of the sleep; the delay has elapsed when it is 0
\*   must_cancel   Task.cancel() was called and the CancelledError is not delivered yet
\*   enq, disp, ctrue, cfalse   history: entries this task put on the queue, engine
\*                 invocations made for them, python_cancel_timer calls that found the
\*                 task and returned True, and whether a call returned False while the
\*                 task was the pending timer of its id and its delay had not elapsed
\*   clate         history: python_cancel_timer was called for the id while this task's
\*                 event was on the queue and the id had not been used again
\*                 (cfalse and clate are kept until the task's event is dispatched)
TimerTask(id, delay) ==
    [id |-> id, delay |-> delay, st |-> "new", remaining |-> delay, must_cancel |-> FALSE,
     enq |-> 0, disp |-> 0, ctrue |-> 0, cfalse |-> FALSE, clate |-> FALSE]

\* A dispatch loop task: the coroutine run_timer_callbacks_loop (runtime.py:142-184).
\*   pc    "new", "acquire" (suspended at line 154), "get" (suspended at line 165),
\*         "exec" (inside execute_lua_callback, lines 167-177), "top" (line 184, about to
\*         loop), "cancelled"
\*   fut   state of the future the task is suspended on
\*   ev    callback_data of the current iteration
\*   call  what execute_lua_callback was called with in the current iteration
\*   made  history: python_timer and queue_lua_callback calls that the script has
\*         made so far inside the current engine invocation
\*   tmade history: the python_timer calls among them
LoopTask ==
    [pc |-> "new", fut |-> "none", must_cancel |-> FALSE, ev |-> NoEvent, call |-> NoEvent,
     made |-> 0, tmade |-> 0]

TaskIds == 1..Len(tasks)
LoopIds == 1..Len(loops)

\* ------------------------------------------- asyncio.Semaphore, asyncio.Queue
\* The synchronisation state the primitives work on, as one value.
St == [v |-> sem_value, w |-> sem_waiters, g |-> getters, q |-> callback_queue, L |-> loops]

\* Index of the first future of a deque that is not done, 0 when there is none.
FirstPending(dq, L) ==
    LET P == {i \in 1..Len(dq) : L[dq[i]].fut = "pending"}
    IN  IF P = {} THEN 0 ELSE CHOOSE i \in P : \A j \in P : i <= j

\* Semaphore.locked()
SemLocked(S) == S.v = 0 \/ \E i \in 1..Len(S.w) : S.L[S.w[i]].fut # "cancelled"

\* Semaphore._wake_up_next()
SemWakeUpNext(S) ==
    LET i == FirstPending(S.w, S.L)
    IN  IF i = 0 THEN S
        ELSE [S EXCEPT !.v = @ - 1, !.L[S.w[i]].fut = "granted"]

\* Semaphore.release()
SemRelease(S) == SemWakeUpNext([S EXCEPT !.v = @ + 1])

\* Queue._wakeup_next(self._getters): pops the done futures and the first pending one
QueueWakeupNext(S) ==
    LET i == FirstPending(S.g, S.L)
    IN  IF i = 0 THEN [S EXCEPT !.g = <<>>]
        ELSE [S EXCEPT !.g = SubSeq(@, i + 1, Len(@)), !.L[S.g[i]].fut = "granted"]

\* Queue.put() on an unbounded queue: put_nowait, never suspends
QueuePut(S, item) == QueueWakeupNext([S EXCEPT !.q = Append(@, item)])

RemoveLoop(dq, l) == SelectSeq(dq, LAMBDA x : x # l)

\* Variants of PutAndRelease: the release forgotten, the release made twice, the
\* release made before the put and again after it.
PutWithoutRelease(S, item) == QueuePut(S, item)
PutAndReleaseTwice(S, item) == SemRelease(SemRelease(QueuePut(S, item)))
ReleaseAroundPut(S, item) == SemRelease(QueuePut(SemRelease(S), item))

\* callback_queue.put(callback_data) followed by timer_semaphore.release()
\* (runtime.py:71-74 and 366-367)
PutAndRelease(S, item) == SemRelease(QueuePut(S, item))

\* ------------------------------------------------ run_timer_callbacks_loop
\* Variant of Invocation: the payload is not handed on.
InvocationWithoutData(ev) ==
    [type |-> ev.type, callback_id |-> ev.callback_id, data |-> NoneData, src |-> ev.src]

\* What the engine is called with for a dequeued entry (lines 168-175).
Invocation(ev) ==
    [type |-> ev.type, callback_id |-> ev.callback_id,
     data |-> IF ev.type = "timer" THEN NoneData ELSE ev.data, src |-> ev.src]

\* Variant of LoopGet: the newest entry is taken instead of the oldest.
LoopGetNewest(S, l) ==
    IF S.q # <<>>
    THEN [S EXCEPT !.q = SubSeq(@, 1, Len(@) - 1), !.L[l].pc = "exec", !.L[l].fut = "none",
                   !.L[l].ev = S.q[Len(S.q)], !.L[l].call = Invocation(S.q[Len(S.q)])]
    ELSE [S EXCEPT !.g = Append(@, l), !.L[l].pc = "get", !.L[l].fut = "pending"]

\* line 165: callback_queue.get(); with an entry present the task goes on into the
\* try block without yielding, otherwise it suspends on a getter future
LoopGet(S, l) ==
    IF S.q # <<>>
    THEN [S EXCEPT !.q = Tail(@), !.L[l].pc = "exec", !.L[l].fut = "none",
                   !.L[l].ev = Head(S.q), !.L[l].call = Invocation(Head(S.q))]
    ELSE [S EXCEPT !.g = Append(@, l), !.L[l].pc = "get", !.L[l].fut = "pending"]

\* Variant of LoopAcquire: a free semaphore is passed without taking a unit.
LoopAcquireFree(S, l) ==
    IF ~SemLocked(S)
    THEN LoopGet(S, l)
    ELSE [S EXCEPT !.w = Append(@, l), !.L[l].pc = "acquire", !.L[l].fut = "pending"]

\* line 154: timer_semaphore.acquire(); takes a unit at once when the semaphore is
\* not locked, otherwise suspends on a waiter future
LoopAcquire(S, l) ==
    IF ~SemLocked(S)
    THEN LoopGet([S EXCEPT !.v = @ - 1], l)
    ELSE [S EXCEPT !.w = Append(@, l), !.L[l].pc = "acquire", !.L[l].fut = "pending"]

SetSync(S) ==
    /\ sem_value' = S.v
    /\ sem_waiters' = S.w
    /\ getters' = S.g
    /\ callback_queue' = S.q
    /\ loops' = S.L

\* History: one more engine invocation for the producer of entry ev.
CountDispatch(ev) ==
    IF ev.type = "timer"
    THEN /\ tasks' = [tasks EXCEPT ![ev.src].disp = @ + 1, ![ev.src].cfalse = FALSE,
                                   ![ev.src].clate = FALSE]
         /\ UNCHANGED subs
    ELSE subs' = [subs EXCEPT ![ev.src].disp = @ + 1] /\ UNCHANGED tasks

\* Task.__step when the coroutine yields a future: a cancellation requested while
\* the task was running (stop() during the engine invocation) cancels that future
\* at once; the CancelledError is delivered at the task's next step.
Suspend(S, l) ==
    IF S.L[l].pc \in {"acquire", "get"} /\ S.L[l].must_cancel /\ S.L[l].fut = "pending"
    THEN [S EXCEPT !.L[l].fut = "cancelled"]
    ELSE S

\* The loop task l has run up to its next suspension point or into the engine.
LoopRunsTo(S, l) ==
    /\ SetSync(Suspend(S, l))
    /\ IF S.L[l].pc = "exec"
       THEN /\ cur' = l
            /\ inflight' = inflight + 1
            /\ CountDispatch(S.L[l].ev)
       ELSE /\ cur' = 0
            /\ UNCHANGED <<inflight, tasks, subs>>

\* First step of a loop task.  A task cancelled before its first step never runs
\* its coroutine.
LoopStart(l) ==
    /\ cur = 0
    /\ loops[l].pc = "new"
    /\ \A k \in 1..(l - 1) : loops[k].pc # "new"   \* first steps run in creation order
    /\ IF loops[l].must_cancel
       THEN /\ loops' = [loops EXCEPT ![l].pc = "cancelled", ![l].must_cancel = FALSE]
            /\ UNCHANGED <<sem_value, sem_waiters, getters, callback_queue, cur, inflight,
                           tasks, subs>>
       ELSE LoopRunsTo(LoopAcquire(St, l), l)
    /\ UNCHANGED <<timer_tasks, callback_task, put_tasks, raised, dup_create>>
    /\ UNCHANGED workervars
    /\ UNCHANGED run

\* Resumption of a suspended loop task whose future has a result.  From acquire()
\* (Semaphore.acquire: the waiter is removed and a further waiter is woken if units
\* are left) the task goes on to get(); from get() (Queue.get: while self.empty())
\* it looks at the queue again.
LoopWake(l) ==
    /\ cur = 0
    /\ loops[l].pc \in {"acquire", "get"}
    /\ loops[l].fut = "granted"
    /\ ~loops[l].must_cancel
    /\ LET S0 == [St EXCEPT !.L[l].fut = "none"]
           S1 == [S0 EXCEPT !.w = RemoveLoop(@, l)]
           S2 == IF S1.v > 0 THEN SemWakeUpNext(S1) ELSE S1
       IN  IF loops[l].pc = "acquire"
           THEN LoopRunsTo(LoopGet(S2, l), l)
           ELSE LoopRunsTo(LoopGet(S0, l), l)
    /\ UNCHANGED <<timer_tasks, callback_task, put_tasks, raised, dup_create>>
    /\ UNCHANGED workervars
    /\ UNCHANGED run

\* Variant of Survives: the failure leaves the loop.
DiesOnFailure(failed) == ~failed

\* Whether the loop task survives an engine invocation that raised: `except
\* Exception` (lines 178-182) catches it.
Survives(failed) == TRUE

\* The engine invocation returns, normally or by raising, and the task reaches
\* line 184.
ExecReturn(l, failed) ==
    /\ cur = l
    /\ loops[l].pc = "exec"
    /\ IF Survives(failed)
       THEN /\ loops' = [loops EXCEPT ![l].pc = "top", ![l].ev = NoEvent, ![l].call = NoEvent,
                                      ![l].made = 0, ![l].tmade = 0]
            /\ UNCHANGED cur
       ELSE /\ loops' = [loops EXCEPT ![l].pc = "cancelled", ![l].ev = NoEvent,
                                      ![l].call = NoEvent, ![l].made = 0, ![l].tmade = 0]
            /\ cur' = 0
    /\ inflight' = inflight - 1
    /\ raised' = (raised \/ failed)
    /\ UNCHANGED <<timer_tasks, tasks, callback_queue, sem_value, sem_waiters, getters,
                   callback_task, put_tasks, subs, dup_create>>
    /\ UNCHANGED workervars
    /\ UNCHANGED run

\* `while True`: the next iteration starts without yielding to the event loop.
LoopIterate(l) ==
    /\ cur = l
    /\ loops[l].pc = "top"
    /\ LoopRunsTo(LoopAcquire(St, l), l)
    /\ UNCHANGED <<timer_tasks, callback_task, put_tasks, raised, dup_create>>
    /\ UNCHANGED workervars
    /\ UNCHANGED run

\* Variant of AcquireCancelled: a unit handed to the cancelled waiter is not given back.
AcquireCancelledKeepsUnit(S, l, granted) == [S EXCEPT !.w = RemoveLoop(@, l)]

\* Semaphore.acquire when the CancelledError arrives: the waiter is removed, and a
\* unit that release() had handed to it is given back and offered to the next waiter.
AcquireCancelled(S, l, granted) ==
    LET R == [S EXCEPT !.w = RemoveLoop(@, l)]
    IN  IF granted THEN SemWakeUpNext([R EXCEPT !.v = @ + 1]) ELSE R

\* The CancelledError of Task.cancel() is delivered at the suspension point.
\* In acquire(): the waiter is removed and a unit already handed over is given back.
\* In get(): the getter is removed and, if an entry is present, the next getter woken.
LoopCancelled(l) ==
    /\ cur = 0
    /\ loops[l].pc \in {"acquire", "get"}
    /\ loops[l].must_cancel
    /\ LET S0 == [St EXCEPT !.L[l].pc = "cancelled", !.L[l].fut = "none",
                            !.L[l].must_cancel = FALSE]
           S1 == IF loops[l].pc = "acquire"
                 THEN AcquireCancelled(S0, l, loops[l].fut = "granted")
                 ELSE LET R == [S0 EXCEPT !.g = RemoveLoop(@, l)]
                      IN  IF R.q # <<>> /\ loops[l].fut = "granted"
                          THEN QueueWakeupNext(R)
                          ELSE R
       IN  SetSync(S1)
    /\ UNCHANGED <<timer_tasks, tasks, callback_task, put_tasks, cur, inflight>>
    /\ UNCHANGED histvars
    /\ UNCHANGED workervars
    /\ UNCHANGED run

\* ------------------------------------------------------------ timer tasks
LatestTask(id) ==
    LET T == {t \in TaskIds : tasks[t].id = id}
    IN  IF T = {} THEN NoTask ELSE CHOOSE t \in T : \A u \in T : u <= t

\* The delay of task t has not elapsed yet.
Early(t) == tasks[t].st = "new" \/ tasks[t].remaining > 0

\* Variant of CleanUp: the task ends without dropping the entry of its id.
CleanUpKeeps(tt, id) == tt

\* `finally` of timer_task (lines 85-88): drops the entry of the task's id,
\* whichever task the entry refers to.
CleanUp(tt, id) == IF tt[id] # NoTask THEN [tt EXCEPT ![id] = NoTask] ELSE tt

\* First step of a timer task: runs to `await asyncio.sleep` (line 60).  A task
\* cancelled before its first step never enters the try block.
TimerStart(t) ==
    /\ cur = 0
    /\ tasks[t].st = "new"
    /\ \A u \in 1..(t - 1) : tasks[u].st # "new"   \* first steps run in creation order
    /\ tasks' = IF tasks[t].must_cancel
                THEN [tasks EXCEPT ![t].st = "done", ![t].must_cancel = FALSE,
                                   ![t].remaining = 0]
                ELSE [tasks EXCEPT ![t].st = "sleeping"]
    /\ UNCHANGED <<timer_tasks, callback_queue, sem_value, sem_waiters, getters, loops,
                   callback_task, put_tasks, cur, inflight>>
    /\ UNCHANGED histvars
    /\ UNCHANGED workervars
    /\ UNCHANGED run

\* The clock advances by one tick for every sleep in progress.
Tick ==
    /\ \E t \in TaskIds : tasks[t].st = "sleeping" /\ tasks[t].remaining > 0
    /\ tasks' = [t \in TaskIds |->
                    IF tasks[t].st = "sleeping" /\ tasks[t].remaining > 0
                    THEN [tasks[t] EXCEPT !.remaining = @ - 1]
                    ELSE tasks[t]]
    /\ UNCHANGED <<timer_tasks, callback_queue, sem_value, sem_waiters, getters, loops,
                   callback_task, put_tasks, cur, inflight>>
    /\ UNCHANGED histvars
    /\ UNCHANGED workervars
    /\ UNCHANGED run

\* Whether the sleep of line 60 is over.
SleepOver(tk) == tk.remaining = 0

\* Variant of StillLive: the expiry enqueues without looking at the live set.
AlwaysLive(tt, id) == TRUE

\* Whether the expiry goes on to enqueue (line 65).
StillLive(tt, id) == tt[id] # NoTask

\* Expiry: the sleep is over and the task resumes (lines 62-74, then 85-88).
TimerFire(t) ==
    /\ cur = 0
    /\ tasks[t].st = "sleeping"
    /\ SleepOver(tasks[t])
    /\ ~tasks[t].must_cancel
    /\ LET id == tasks[t].id
           cd == CallbackData("timer", id, NoneData, t)
       IN  IF StillLive(timer_tasks, id)
           THEN /\ SetSync(PutAndRelease(St, cd))
                /\ tasks' = [tasks EXCEPT ![t].st = "done", ![t].enq = @ + 1]
                /\ timer_tasks' = CleanUp(timer_tasks, id)
           ELSE /\ tasks' = [tasks EXCEPT ![t].st = "done"]
                /\ UNCHANGED <<timer_tasks, callback_queue, sem_value, sem_waiters, getters,
                               loops>>
    /\ UNCHANGED <<callback_task, put_tasks, cur, inflight>>
    /\ UNCHANGED histvars
    /\ UNCHANGED workervars
    /\ UNCHANGED run

\* Variant of CancelledEnqueue: the cancellation is swallowed and the event queued.
CancelledStillEnqueues(S, cd) == PutAndRelease(S, cd)

\* What a cancelled timer task does when the CancelledError reaches it: nothing
\* is enqueued (lines 76-79).
CancelledEnqueue(S, cd) == S

\* The CancelledError of Task.cancel() reaches the sleeping task (lines 76-79, 85-88).
TimerCancelled(t) ==
    /\ cur = 0
    /\ tasks[t].st = "sleeping"
    /\ tasks[t].must_cancel
    /\ LET cd == CallbackData("timer", tasks[t].id, NoneData, t)
           S == CancelledEnqueue(St, cd)
       IN  /\ SetSync(S)
           /\ tasks' = [tasks EXCEPT ![t].st = "done", ![t].must_cancel = FALSE,
                                     ![t].remaining = 0,
                                     ![t].enq = @ + (Len(S.q) - Len(callback_queue))]
    /\ timer_tasks' = CleanUp(timer_tasks, tasks[t].id)
    /\ UNCHANGED <<callback_task, put_tasks, cur, inflight>>
    /\ UNCHANGED histvars
    /\ UNCHANGED workervars
    /\ UNCHANGED run

\* ------------------------------------------------- the runtime's operations
\* Variant of ScriptCtx: the runtime is called only while no invocation is in flight.
ScriptCtxIdle == cur = 0

\* Code that runs on the event-loop thread outside a task step of the model: the
\* script inside an engine invocation, or the main script and other event-loop code.
ScriptCtx ==
    \/ cur = 0
    \/ cur = Monitor
    \/ (cur \in LoopIds /\ loops[cur].pc = "exec")

\* Variant of LoopDone: callback_task.done() is not looked at.
LoopDoneIfNone(L, ct) == ct = NoTask

\* The condition of line 211: no loop task, or one that has finished.
LoopDone(L, ct) == ct = NoTask \/ L[ct].pc = "cancelled"

\* _ensure_callback_loop_running (lines 209-221)
EnsureLoops(L, ct) == IF LoopDone(L, ct) THEN Append(L, LoopTask) ELSE L
EnsureTask(L, ct) == IF LoopDone(L, ct) THEN Len(L) + 1 ELSE ct

\* History: one more call made by the script of the engine invocation in flight.
CountMade(L, c) == IF c \in 1..Len(L) THEN [L EXCEPT ![c].made = @ + 1] ELSE L

\* History: one more python_timer call made inside the invocation in flight.
CountTimerMade(L, c) == IF c \in 1..Len(L) THEN [L EXCEPT ![c].tmade = @ + 1] ELSE L

\* Variant of Register: create_timer leaves the registration to the timer task.
RegisterNothing(tt, id, t) == tt

\* line 96: self.timer_tasks[timer_id] = task
Register(tt, id, t) == [tt EXCEPT ![id] = t]

\* python_timer (lines 99-103) with create_timer (lines 90-97)
PythonTimer(id, delay) ==
    /\ ScriptCtx
    /\ Len(tasks) + Len(subs) < MaxEvents
    /\ LoopDone(loops, callback_task) => Len(loops) < MaxLoops
    /\ loops' = CountTimerMade(CountMade(EnsureLoops(loops, callback_task), cur), cur)
    /\ callback_task' = EnsureTask(loops, callback_task)
    /\ tasks' = Append(tasks, TimerTask(id, delay))
    /\ timer_tasks' = Register(timer_tasks, id, Len(tasks) + 1)
    /\ dup_create' = (dup_create \/ timer_tasks[id] # NoTask)
    /\ UNCHANGED <<callback_queue, sem_value, sem_waiters, getters, put_tasks, cur, inflight,
                   subs, raised>>
    /\ UNCHANGED workervars
    /\ UNCHANGED run

\* What python_cancel_timer returns (line 107)
CancelResult(tt, id) == tt[id] # NoTask

\* Whether the event of timer task u is on the queue, waiting to be dispatched.
Queued(T, u) == u # NoTask /\ T[u].enq > T[u].disp

\* Variant of CancelEntry: the cancel empties the live set.
CancelClearsAll(tt, id) == [i \in Ids |-> NoTask]

\* line 114: del self.timer_tasks[timer_id]
CancelEntry(tt, id) == [tt EXCEPT ![id] = NoTask]

\* python_cancel_timer (lines 105-118)
PythonCancelTimer(id) ==
    /\ ScriptCtx
    /\ LET t == timer_tasks[id]
           u == LatestTask(id)
           T == IF CancelResult(timer_tasks, id)
                THEN [tasks EXCEPT ![t].must_cancel = (tasks[t].st # "done"),
                                   ![t].ctrue = @ + 1]
                ELSE IF /\ u # NoTask
                        /\ tasks[u].st # "done"
                        /\ ~tasks[u].must_cancel
                        /\ Early(u)
                     THEN [tasks EXCEPT ![u].cfalse = TRUE]
                     ELSE tasks
       IN  /\ tasks' = IF Queued(tasks, u) THEN [T EXCEPT ![u].clate = TRUE] ELSE T
           /\ timer_tasks' = IF CancelResult(timer_tasks, id)
                             THEN CancelEntry(timer_tasks, id)
                             ELSE timer_tasks
    /\ UNCHANGED <<callback_queue, sem_value, sem_waiters, getters, loops, callback_task,
                   put_tasks, cur, inflight>>
    /\ UNCHANGED histvars
    /\ UNCHANGED workervars
    /\ UNCHANGED run

\* One record of subs.  outcome: "scheduled" (a _queue_callback task was made),
\* "dropped" (the call returned and nothing was scheduled) or "raised" (the call
\* raised into its caller); id and data are the arguments of the call; enq and
\* disp count queue entries and engine invocations.
Submission(thread, outcome, id, data) ==
    [thread |-> thread, outcome |-> outcome, id |-> id, data |-> data, enq |-> 0, disp |-> 0]

\* queue_lua_callback called on the event-loop thread (lines 339-354): the put is
\* left to a new task, scheduled behind the tasks made before it.
QueueLuaCallback(id, data) ==
    /\ ScriptCtx
    /\ Len(tasks) + Len(subs) < MaxEvents
    /\ LoopDone(loops, callback_task) => Len(loops) < MaxLoops
    /\ loops' = CountMade(EnsureLoops(loops, callback_task), cur)
    /\ callback_task' = EnsureTask(loops, callback_task)
    /\ put_tasks' = Append(put_tasks, CallbackData("lua_callback", id, data, Len(subs) + 1))
    /\ subs' = Append(subs, Submission(FALSE, "scheduled", id, data))
    /\ UNCHANGED <<timer_tasks, tasks, callback_queue, sem_value, sem_waiters, getters, cur,
                   inflight, raised, dup_create>>
    /\ UNCHANGED workervars
    /\ UNCHANGED run

\* What queue_lua_callback does on a thread that runs no event loop: with no loop
\* task to reuse, asyncio.create_task raises out of _ensure_callback_loop_running
\* (line 213); otherwise get_running_loop raises (line 351), the fallback
\* create_task raises too (line 360) and line 361 swallows it.
ThreadOutcome(L, ct) == IF LoopDone(L, ct) THEN "raised" ELSE "dropped"

\* queue_lua_callback called on another thread (lines 339-362)
QueueLuaCallbackFromThread(id, data) ==
    /\ Len(tasks) + Len(subs) < MaxEvents
    /\ subs' = Append(subs, Submission(TRUE, ThreadOutcome(loops, callback_task), id, data))
    /\ UNCHANGED rtvars
    /\ UNCHANGED <<cur, inflight, raised, dup_create>>
    /\ UNCHANGED workervars
    /\ UNCHANGED run

\* _queue_callback (lines 364-367): first and only step of the oldest put task
QueueCallback ==
    /\ cur = 0
    /\ put_tasks # <<>>
    /\ SetSync(PutAndRelease(St, Head(put_tasks)))
    /\ put_tasks' = Tail(put_tasks)
    /\ subs' = [subs EXCEPT ![Head(put_tasks).src].enq = @ + 1]
    /\ UNCHANGED <<timer_tasks, tasks, callback_task, cur, inflight, raised, dup_create>>
    /\ UNCHANGED workervars
    /\ UNCHANGED run

\* start_callback_loop (lines 223-230): a new loop task, whatever callback_task was
StartCallbackLoop ==
    /\ cur = 0
    /\ Len(loops) < MaxLoops
    /\ loops' = Append(loops, LoopTask)
    /\ callback_task' = Len(loops) + 1
    /\ UNCHANGED <<timer_tasks, tasks, callback_queue, sem_value, sem_waiters, getters,
                   put_tasks, cur, inflight>>
    /\ UNCHANGED histvars
    /\ UNCHANGED workervars
    /\ UNCHANGED run

\* Task.cancel() on a loop task: a pending future is cancelled, and the
\* CancelledError is delivered at the task's next step.
TaskCancel(L, l) ==
    IF L[l].pc = "cancelled" THEN L
    ELSE [L EXCEPT ![l].must_cancel = TRUE,
                   ![l].fut = IF @ = "pending" THEN "cancelled" ELSE @]

\* stop (lines 289-295); it may be called while an engine invocation is in flight
Stop ==
    /\ ScriptCtx
    /\ callback_task # NoTask
    /\ loops' = TaskCancel(loops, callback_task)
    /\ UNCHANGED <<timer_tasks, tasks, callback_queue, sem_value, sem_waiters, getters,
                   callback_task, put_tasks, cur, inflight>>
    /\ UNCHANGED histvars
    /\ UNCHANGED workervars
    /\ UNCHANGED run

\* check_is_running_hook (interpreter.py:359-378), called by the run monitor
\* (runtime.py:247, 273): the hook script is executed by the engine.
CheckIsRunningHook ==
    /\ cur = 0
    /\ cur' = Monitor
    /\ inflight' = inflight + 1
    /\ UNCHANGED rtvars
    /\ UNCHANGED histvars
    /\ UNCHANGED workervars
    /\ UNCHANGED run

CheckIsRunningHookReturn ==
    /\ cur = Monitor
    /\ cur' = 0
    /\ inflight' = inflight - 1
    /\ UNCHANGED rtvars
    /\ UNCHANGED histvars
    /\ UNCHANGED workervars
    /\ UNCHANGED run

\* --------------------------------------------------- start and its monitor
\* start() before it is called: no monitor task.
\*   phase     "idle", "created" (the monitor task is made), "sleeping", "hook" (the
\*             monitor is inside check_is_running_hook), "ended" (the monitor task is
\*             over), "stopped" (start has run its finally clause and exited)
\*   kind      the monitor: "duration" (run_for_duration), "forever" (run_forever)
\*   i         sleeps of the monitor that are over
\*   script    whether start was given anything to execute
\*   init      whether start has called initialize_lua
\*   hook      the value of the isRunning hook at the monitor's last check
NoRun ==
    [phase |-> "idle", kind |-> "none", duration |-> NoDuration, i |-> 0,
     script |-> FALSE, init |-> FALSE, hook |-> "none"]

\* Where start() raises: nowhere, in initialize_lua (line 394), or while it executes
\* the script (lines 400-451), which is after it has started the dispatch loop.
Failures == {"no", "init", "script"}

\* `if duration:` (runtime.py:455): None and 0 are both falsy.
RunsForDuration(d) == d # NoDuration /\ d # 0

\* Seconds the monitor has slept: sleep(1) in run_for_duration, sleep(10) in run_forever.
Elapsed(r) == IF r.kind = "forever" THEN 10 * r.i ELSE r.i

\* Variant of StopLoops: start leaves without stopping the dispatch loop.
StopLoopsNothing(L, ct) == L

\* stop (lines 289-295) as start's finally clause calls it
StopLoops(L, ct) == IF ct = NoTask THEN L ELSE TaskCancel(L, ct)

\* start (lines 369-470) up to `await duration_task` / `await forever_task`: without
\* a script it returns at line 388; otherwise it initializes the engine, starts the
\* dispatch loop, runs the script and creates the monitor task that `if duration:`
\* selects.  Wherever it returns or raises, the finally clause calls stop().
\* The runtime calls the script makes are the operations above.
Start(d, has_script, fails) ==
    /\ cur = 0
    /\ run.phase = "idle"
    /\ IF ~has_script
       THEN /\ loops' = StopLoops(loops, callback_task)
            /\ UNCHANGED callback_task
            /\ run' = [run EXCEPT !.phase = "stopped", !.duration = d]
       ELSE IF fails = "init"
       THEN /\ loops' = StopLoops(loops, callback_task)
            /\ UNCHANGED callback_task
            /\ run' = [run EXCEPT !.phase = "stopped", !.duration = d, !.script = TRUE,
                                  !.init = TRUE]
       ELSE /\ Len(loops) < MaxLoops
            /\ callback_task' = Len(loops) + 1
            /\ IF fails = "script"
               THEN /\ loops' = StopLoops(Append(loops, LoopTask), Len(loops) + 1)
                    /\ run' = [run EXCEPT !.phase = "stopped", !.duration = d,
                                          !.script = TRUE, !.init = TRUE]
               ELSE /\ loops' = Append(loops, LoopTask)
                    /\ run' = [run EXCEPT
                                  !.phase = "created",
                                  !.kind = IF RunsForDuration(d) THEN "duration" ELSE "forever",
                                  !.duration = d, !.script = TRUE, !.init = TRUE]
    /\ UNCHANGED <<timer_tasks, tasks, callback_queue, sem_value, sem_waiters, getters,
                   put_tasks, cur, inflight>>
    /\ UNCHANGED histvars
    /\ UNCHANGED workervars

\* First step of the monitor task.  run_for_duration (lines 232-244) starts a
\* dispatch loop if there is none and enters `for i in range(duration_seconds)`;
\* run_forever (lines 262-268) enters `while True`.
MonitorBegin ==
    /\ cur = 0
    /\ run.phase = "created"
    /\ \A k \in LoopIds : loops[k].pc # "new"   \* first steps run in creation order
    /\ IF run.kind = "duration"
       THEN /\ LoopDone(loops, callback_task) => Len(loops) < MaxLoops
            /\ loops' = EnsureLoops(loops, callback_task)
            /\ callback_task' = EnsureTask(loops, callback_task)
            /\ run' = [run EXCEPT !.phase = IF run.duration > 0 THEN "sleeping" ELSE "ended"]
       ELSE /\ run' = [run EXCEPT !.phase = "sleeping"]
            /\ UNCHANGED <<loops, callback_task>>
    /\ UNCHANGED <<timer_tasks, tasks, callback_queue, sem_value, sem_waiters, getters,
                   put_tasks, cur, inflight>>
    /\ UNCHANGED histvars
    /\ UNCHANGED workervars

\* The monitor's sleep is over and it calls check_is_running_hook (lines 243-247,
\* 268-273), which runs the hook in the engine.
MonitorWake ==
    /\ cur = 0
    /\ run.phase = "sleeping"
    /\ run.kind = "forever" => run.i < MaxWakes
    /\ run' = [run EXCEPT !.phase = "hook", !.i = @ + 1]
    /\ cur' = Monitor
    /\ inflight' = inflight + 1
    /\ UNCHANGED rtvars
    /\ UNCHANGED histvars
    /\ UNCHANGED workervars

\* What the script's _PY.isRunning does when the monitor checks it: it is not
\* defined, it raises, or it returns nil, false, true, the number 0 or another number.
HookValues == {"absent", "raises", "nil", "false", "true", "zero", "number"}

\* The Python value lua.execute(check_script) returns (interpreter.py:365-374):
\* without a hook the chunk returns true; nil arrives as None, a number as a number.
LuaExecute(v) ==
    CASE v = "absent" -> "True"
      [] v = "nil" -> "None"
      [] v = "false" -> "False"
      [] v = "true" -> "True"
      [] v = "zero" -> "0"
      [] v = "number" -> "1"

\* Python's bool()
Bool(x) == x \notin {"False", "0", "None"}

\* Variant of CheckIsRunningHookResult: None is not told apart from False.
CheckIsRunningHookResultPlainBool(v) == IF v = "raises" THEN TRUE ELSE Bool(LuaExecute(v))

\* check_is_running_hook (interpreter.py:359-378):
\* `bool(result) if result is not None else True`, and True when the hook raised.
CheckIsRunningHookResult(v) ==
    IF v = "raises" THEN TRUE
    ELSE LET result == LuaExecute(v)
         IN  IF result # "None" THEN Bool(result) ELSE TRUE

\* check_is_running_hook returns: the monitor ends if the hook said to stop (lines
\* 247-249, 273-275) or if range(duration_seconds) is used up, and sleeps again
\* otherwise.
MonitorHookReturn(v) ==
    /\ cur = Monitor
    /\ run.phase = "hook"
    /\ cur' = 0
    /\ inflight' = inflight - 1
    /\ run' = [run EXCEPT !.hook = v,
                          !.phase =
                  IF ~CheckIsRunningHookResult(v) THEN "ended"
                  ELSE IF run.kind = "duration" /\ run.i = run.duration THEN "ended"
                  ELSE "sleeping"]
    /\ UNCHANGED rtvars
    /\ UNCHANGED histvars
    /\ UNCHANGED workervars

\* start resumes when its monitor task has ended; `finally: self.stop()` (lines 469-470)
StartFinally ==
    /\ cur = 0
    /\ run.phase = "ended"
    /\ loops' = StopLoops(loops, callback_task)
    /\ run' = [run EXCEPT !.phase = "stopped"]
    /\ UNCHANGED <<timer_tasks, tasks, callback_queue, sem_value, sem_waiters, getters,
                   callback_task, put_tasks, cur, inflight>>
    /\ UNCHANGED histvars
    /\ UNCHANGED workervars

\* ------------------------------------------------------ the polling worker
MAX_EVENTS == 1000

\* Variant of DequeAppend: the buffer has no capacity.
DequeAppendUnbounded(dq, x) == Append(dq, x)

\* deque(maxlen=MAX_EVENTS).append
DequeAppend(dq, x) == IF Len(dq) = MAX_EVENTS THEN Append(Tail(dq), x) ELSE Append(dq, x)

\* Whether addEvent calls the script's hook (luafuns_lib.py:793)
CallsHook(defined) == defined

\* A thread running refresh_runner (luafuns_lib.py:733-771).
\*   pc       "started" (Thread.start() done, line 736 not reached), "idle" (in
\*            time.sleep or at the test of `while _refresh_running`), "request" (in
\*            requests.get), "add" (calling addEvent, before the lock), "append" (in
\*            addEvent, holding _events_lock), "hook" (inside the script's
\*            newRefreshStatesEvent), "exited"
\*   retries  the local variable retries
\*   streak   history: the connection errors in a row up to now
\*   event    the event handed to addEvent
\*   told     history: pollRefreshStates cleared the flag for this thread and joined it
WorkerThread == [pc |-> "started", retries |-> 0, streak |-> 0, event |-> "none",
                 told |-> FALSE]

WorkerIds == 1..Len(workers)
NoThread == 0

\* How a request of refresh_runner ends: a 200 response without events (or one whose
\* body does not parse, which raises after line 743) or with one event, a 401
\* response, another status, a timeout, a connection error, another exception.
Responses == {"200", "200 event", "401", "500", "timeout", "connection", "error"}

\* The responses of a server that is reachable
ReachableResponses == {"200 event", "401", "timeout"}

\* The events the script adds with addEventFromLua; a polling thread adds "ev"
Events == {"lua"}

\* _events_lock: the thread that holds it; the event-loop thread is thread 0
Free == -1
LuaThread == 0

\* Variant of LockFree: the lock excludes nobody.
LockAlwaysFree(holder) == TRUE

\* threading.Lock: it is acquired when no thread holds it
LockFree(holder) == holder = Free

\* Variant of ExitsOnErrors: the loop is left at the fifth connection error.
ExitsOnFiveErrors(retries) == retries >= 5

\* `if retries > 5` (line 761)
ExitsOnErrors(retries) == retries > 5

\* _refresh_thread.join(timeout=1) (line 728): the thread has ended when join returns,
\* or the timeout has passed and it runs on.
ThreadStopped(W, old, joined) ==
    IF joined THEN [W EXCEPT ![old].pc = "exited", ![old].told = TRUE]
    ELSE [W EXCEPT ![old].told = TRUE]

\* pollRefreshStates (luafuns_lib.py:720-777), called by the script.  If polling is
\* marked as running and there is a thread, the flag is cleared and the thread is
\* joined for one second (lines 726-728): a thread that sleeps or is at its loop
\* test can see the flag and end within the second (joined); a thread inside a
\* request, which may take 30 seconds, cannot.  Then a new thread is started.
PollRefreshStates(joined) ==
    /\ ScriptCtx
    /\ lua_add = "idle"
    /\ Len(workers) < MaxWorkers
    /\ LET old == refresh_thread
           stops == refresh_running /\ old # NoThread
       IN  /\ ~stops => joined
           /\ (stops /\ joined) => workers[old].pc \in {"idle", "exited"}
           /\ (stops /\ ~joined) => workers[old].pc # "exited"
           /\ workers' = Append(IF stops THEN ThreadStopped(workers, old, joined) ELSE workers,
                                WorkerThread)
           /\ refresh_running' = IF stops THEN FALSE ELSE refresh_running
    /\ refresh_thread' = Len(workers) + 1
    /\ stop_refresh' = "none"
    /\ UNCHANGED <<hook_defined, event_count, events, events_lock, lua_add, poll_last,
                   received>>
    /\ UNCHANGED rtvars
    /\ UNCHANGED <<cur, inflight, run>>
    /\ UNCHANGED histvars

\* refresh_runner begins (lines 733-736)
WorkerBegin(w) ==
    /\ workers[w].pc = "started"
    /\ workers' = [workers EXCEPT ![w].pc = "idle"]
    /\ refresh_running' = TRUE
    /\ UNCHANGED <<refresh_thread, stop_refresh, hook_defined, event_count, events,
                   events_lock, lua_add, poll_last, received>>
    /\ UNCHANGED rtvars
    /\ UNCHANGED <<cur, inflight, run>>
    /\ UNCHANGED histvars

\* `while _refresh_running` holds and the request is sent (lines 738-741)
WorkerRequest(w) ==
    /\ workers[w].pc = "idle"
    /\ refresh_running
    /\ workers' = [workers EXCEPT ![w].pc = "request"]
    /\ UNCHANGED <<refresh_thread, refresh_running, stop_refresh, hook_defined, event_count,
                   events, events_lock, lua_add, poll_last, received>>
    /\ UNCHANGED rtvars
    /\ UNCHANGED <<cur, inflight, run>>
    /\ UNCHANGED histvars

\* `while _refresh_running` fails; line 771
WorkerExit(w) ==
    /\ workers[w].pc = "idle"
    /\ ~refresh_running
    /\ workers' = [workers EXCEPT ![w].pc = "exited"]
    /\ refresh_running' = FALSE
    /\ UNCHANGED <<refresh_thread, stop_refresh, hook_defined, event_count, events,
                   events_lock, lua_add, poll_last, received>>
    /\ UNCHANGED rtvars
    /\ UNCHANGED <<cur, inflight, run>>
    /\ UNCHANGED histvars

\* What a thread of refresh_runner does with the end of its request (lines
\* 742-767).  200: retries is reset and the events are handed to addEvent; 401:
\* break; another status: nothing; Timeout: pass; ConnectionError: retries is
\* counted and the loop left when it exceeds 5; any other exception is printed.  A
\* break goes to line 771.
Respond(t, r) ==
    LET n == IF r \in {"200", "200 event"} THEN 0
             ELSE IF r = "connection" THEN t.retries + 1
             ELSE t.retries
        leaves == r = "401" \/ (r = "connection" /\ ExitsOnErrors(n))
    IN  [pc |-> IF leaves THEN "exited" ELSE IF r = "200 event" THEN "add" ELSE "idle",
         retries |-> n,
         streak |-> IF r = "connection" THEN t.streak + 1 ELSE 0,
         event |-> IF r = "200 event" THEN "ev" ELSE "none",
         told |-> t.told]

\* The request of thread w ends with r; a thread that leaves its loop clears the
\* flag (line 771).
WorkerResponse(w, r) ==
    /\ workers[w].pc = "request"
    /\ r = "200 event" => event_count < MaxAddEvents
    /\ workers' = [workers EXCEPT ![w] = Respond(workers[w], r)]
    /\ refresh_running' = IF Respond(workers[w], r).pc = "exited" THEN FALSE
                          ELSE refresh_running
    /\ UNCHANGED <<refresh_thread, stop_refresh, hook_defined, event_count, events,
                   events_lock, lua_add, poll_last, received>>
    /\ UNCHANGED rtvars
    /\ UNCHANGED <<cur, inflight, run>>
    /\ UNCHANGED histvars

\* addEvent (luafuns_lib.py:780-805) called by refresh_runner on the worker thread
\* (line 750): `with _events_lock` and `_event_count += 1` (lines 786-787)
AddEvent(w) ==
    /\ workers[w].pc = "add"
    /\ LockFree(events_lock)
    /\ events_lock' = w
    /\ event_count' = event_count + 1
    /\ workers' = [workers EXCEPT ![w].pc = "append"]
    /\ UNCHANGED <<refresh_thread, refresh_running, stop_refresh, hook_defined, events,
                   lua_add, poll_last, received>>
    /\ UNCHANGED rtvars
    /\ UNCHANGED <<cur, inflight, run>>
    /\ UNCHANGED histvars

\* addEvent, lines 788-789: the entry gets the value _event_count has now and is
\* appended; the lock is released; then the script's hook is called (lines 791-797).
AddEventAppend(w) ==
    /\ workers[w].pc = "append"
    /\ events' = DequeAppend(events, [last |-> event_count, event |-> workers[w].event])
    /\ events_lock' = Free
    /\ IF CallsHook(hook_defined)
       THEN /\ workers' = [workers EXCEPT ![w].pc = "hook", ![w].event = "none"]
            /\ inflight' = inflight + 1
       ELSE /\ workers' = [workers EXCEPT ![w].pc = "idle", ![w].event = "none"]
            /\ UNCHANGED inflight
    /\ UNCHANGED <<refresh_thread, refresh_running, stop_refresh, hook_defined, event_count,
                   lua_add, poll_last, received>>
    /\ UNCHANGED rtvars
    /\ UNCHANGED <<cur, run>>
    /\ UNCHANGED histvars

\* _PY.newRefreshStatesEvent returns or raises (lines 798-802)
AddEventHookReturn(w) ==
    /\ workers[w].pc = "hook"
    /\ workers' = [workers EXCEPT ![w].pc = "idle"]
    /\ inflight' = inflight - 1
    /\ UNCHANGED <<refresh_thread, refresh_running, stop_refresh, hook_defined, event_count,
                   events, events_lock, lua_add, poll_last, received>>
    /\ UNCHANGED rtvars
    /\ UNCHANGED <<cur, run>>
    /\ UNCHANGED histvars

\* addEventFromLua (lines 808-816), called by the script on the event-loop thread:
\* addEvent up to `_event_count += 1`.  limit bounds the calls of a run.
AddEventFromLua(event, limit) ==
    /\ ScriptCtx
    /\ lua_add = "idle"
    /\ event_count < limit
    /\ LockFree(events_lock)
    /\ events_lock' = LuaThread
    /\ event_count' = event_count + 1
    /\ lua_add' = event
    /\ UNCHANGED <<workers, refresh_thread, refresh_running, stop_refresh, hook_defined,
                   events, poll_last, received>>
    /\ UNCHANGED rtvars
    /\ UNCHANGED <<cur, inflight, run>>
    /\ UNCHANGED histvars

\* The rest of that addEvent call: the append, the release of the lock and the
\* script's hook, which runs and returns on this thread.
AddEventFromLuaAppend ==
    /\ lua_add # "idle"
    /\ events' = DequeAppend(events, [last |-> event_count, event |-> lua_add])
    /\ events_lock' = Free
    /\ lua_add' = "idle"
    /\ UNCHANGED <<workers, refresh_thread, refresh_running, stop_refresh, hook_defined,
                   event_count, poll_last, received>>
    /\ UNCHANGED rtvars
    /\ UNCHANGED <<cur, inflight, run>>
    /\ UNCHANGED histvars

\* getEvents (lines 819-843): the buffer entries it selects and its 'last'
GetEventsSelect(evq, counter) == SelectSeq(evq, LAMBDA e : e.last > counter)
GetEventsLast(evq) == IF evq # <<>> THEN evq[Len(evq)].last ELSE 0

\* Variant of GetEventsResult: 'last' is the counter that was asked for.
GetEventsResultEchoes(evq, counter) ==
    [events |-> [i \in 1..Len(GetEventsSelect(evq, counter)) |->
                    GetEventsSelect(evq, counter)[i].event],
     last |-> counter]

\* The fields 'events' and 'last' of the table getEvents returns
GetEventsResult(evq, counter) ==
    [events |-> [i \in 1..Len(GetEventsSelect(evq, counter)) |->
                    GetEventsSelect(evq, counter)[i].event],
     last |-> GetEventsLast(evq)]

\* The script polls: getEvents with the 'last' of its previous call (0 at first),
\* under _events_lock.  received is the history of the counters of the entries it
\* was given.
GetEvents ==
    /\ ScriptCtx
    /\ lua_add = "idle"
    /\ LockFree(events_lock)
    /\ received' = received \o [i \in 1..Len(GetEventsSelect(events, poll_last)) |->
                                  GetEventsSelect(events, poll_last)[i].last]
    /\ poll_last' = GetEventsResult(events, poll_last).last
    /\ UNCHANGED <<workers, refresh_thread, refresh_running, stop_refresh, hook_defined,
                   event_count, events, events_lock, lua_add>>
    /\ UNCHANGED rtvars
    /\ UNCHANGED <<cur, inflight, run>>
    /\ UNCHANGED histvars

\* hasattr(lua_runtime, '_refresh_thread') and lua_runtime._refresh_thread (line 850):
\* the worker is the module's global _refresh_thread; nothing sets an attribute of
\* that name on the engine handle.
HandleHasRefreshThread == FALSE

\* What stopRefreshStates returns (lines 849-857): with the attribute it would call
\* Thread.stop(), which does not exist, and the except clause returns False.
StopRefreshResult(has_thread) == IF has_thread THEN FALSE ELSE FALSE

\* stopRefreshStates (lines 846-857), called by the script: neither _refresh_running
\* nor _refresh_thread is touched.
StopRefreshStates ==
    /\ ScriptCtx
    /\ lua_add = "idle"
    /\ stop_refresh' = IF StopRefreshResult(HandleHasRefreshThread) THEN "true" ELSE "false"
    /\ UNCHANGED <<workers, refresh_thread, refresh_running, hook_defined, event_count,
                   events, events_lock, lua_add, poll_last, received>>
    /\ UNCHANGED rtvars
    /\ UNCHANGED <<cur, inflight, run>>
    /\ UNCHANGED histvars

\* ------------------------------------------------------------ specifications
Init ==
    /\ timer_tasks = [id \in Ids |-> NoTask]
    /\ tasks = <<>>
    /\ callback_queue = <<>>
    /\ sem_value = 0
    /\ sem_waiters = <<>>
    /\ getters = <<>>
    /\ loops = <<>>
    /\ callback_task = NoTask
    /\ put_tasks = <<>>
    /\ cur = 0
    /\ inflight = 0
    /\ workers = <<>>
    /\ hook_defined = FALSE
    /\ event_count = 0
    /\ events = <<>>
    /\ subs = <<>>
    /\ raised = FALSE
    /\ dup_create = FALSE
    /\ refresh_running = FALSE
    /\ stop_refresh = "none"
    /\ run = NoRun
    /\ refresh_thread = NoThread
    /\ events_lock = Free
    /\ lua_add = "idle"
    /\ poll_last = 0
    /\ received = <<>>

\* The steps of the event loop: timer tasks, put tasks and dispatch loop tasks.
LoopThreadStep ==
    \/ QueueCallback
    \/ \E t \in TaskIds : TimerStart(t)
    \/ \E t \in TaskIds : TimerFire(t)
    \/ \E t \in TaskIds : TimerCancelled(t)
    \/ \E l \in LoopIds : LoopStart(l)
    \/ \E l \in LoopIds : LoopWake(l)
    \/ \E l \in LoopIds, failed \in BOOLEAN : ExecReturn(l, failed)
    \/ \E l \in LoopIds : LoopIterate(l)

\* The runtime: timers, submissions and the life cycle of the dispatch loop.
Next ==
    \/ \E id \in Ids, d \in Delays : PythonTimer(id, d)
    \/ \E id \in Ids : PythonCancelTimer(id)
    \/ \E id \in Ids, data \in Payloads : QueueLuaCallback(id, data)
    \/ \E id \in Ids, data \in Payloads : QueueLuaCallbackFromThread(id, data)
    \/ Tick
    \/ QueueCallback
    \/ \E t \in TaskIds : TimerStart(t)
    \/ \E t \in TaskIds : TimerFire(t)
    \/ \E t \in TaskIds : TimerCancelled(t)
    \/ \E l \in LoopIds : LoopStart(l)
    \/ \E l \in LoopIds : LoopWake(l)
    \/ \E l \in LoopIds, failed \in BOOLEAN : ExecReturn(l, failed)
    \/ \E l \in LoopIds : LoopIterate(l)
    \/ StartCallbackLoop
    \/ Stop
    \/ \E l \in LoopIds : LoopCancelled(l)

Spec == Init /\ [][Next]_vars


\* The whole program: the runtime, the run monitor's hook and the polling worker,
\* which pollRefreshStates has started and which has entered its polling loop.
EngineInit ==
    /\ Init!1 /\ Init!2 /\ Init!3 /\ Init!4 /\ Init!5 /\ Init!6 /\ Init!7 /\ Init!8
    /\ Init!9 /\ Init!10 /\ Init!11
    /\ workers = <<[WorkerThread EXCEPT !.pc = "idle"]>>
    /\ hook_defined \in BOOLEAN
    /\ Init!14 /\ Init!15 /\ Init!16 /\ Init!17 /\ Init!18
    /\ refresh_running = TRUE
    /\ Init!20 /\ Init!21
    /\ refresh_thread = 1
    /\ Init!23 /\ Init!24 /\ Init!25 /\ Init!26

EngineNext ==
    \/ \E id \in Ids, d \in Delays : PythonTimer(id, d)
    \/ \E id \in Ids : PythonCancelTimer(id)
    \/ \E id \in Ids, data \in Payloads : QueueLuaCallback(id, data)
    \/ \E id \in Ids, data \in Payloads : QueueLuaCallbackFromThread(id, data)
    \/ Tick
    \/ QueueCallback
    \/ \E t \in TaskIds : TimerStart(t)
    \/ \E t \in TaskIds : TimerFire(t)
    \/ \E t \in TaskIds : TimerCancelled(t)
    \/ \E l \in LoopIds : LoopStart(l)
    \/ \E l \in LoopIds : LoopWake(l)
    \/ \E l \in LoopIds, failed \in BOOLEAN : ExecReturn(l, failed)
    \/ \E l \in LoopIds : LoopIterate(l)
    \/ StartCallbackLoop
    \/ Stop
    \/ \E l \in LoopIds : LoopCancelled(l)
    \/ CheckIsRunningHook
    \/ CheckIsRunningHookReturn
    \/ \E w \in WorkerIds : WorkerRequest(w)
    \/ \E w \in WorkerIds, r \in {"200 event"} : WorkerResponse(w, r)
    \/ \E w \in WorkerIds : AddEvent(w)
    \/ \E w \in WorkerIds : AddEventAppend(w)
    \/ \E w \in WorkerIds : AddEventHookReturn(w)

EngineSpec == EngineInit /\ [][EngineNext]_vars

\* Runs in which the runtime is not stopped.  The event loop runs its ready tasks
\* in turn and the clock advances, hence the weak fairness; an engine invocation
\* is taken to return.
LiveNext ==
    \/ \E id \in Ids, d \in Delays : PythonTimer(id, d)
    \/ \E id \in Ids : PythonCancelTimer(id)
    \/ \E id \in Ids, data \in Payloads : QueueLuaCallback(id, data)
    \/ Tick
    \/ QueueCallback
    \/ \E t \in TaskIds : TimerStart(t)
    \/ \E t \in TaskIds : TimerFire(t)
    \/ \E t \in TaskIds : TimerCancelled(t)
    \/ \E l \in LoopIds : LoopStart(l)
    \/ \E l \in LoopIds : LoopWake(l)
    \/ \E l \in LoopIds, failed \in BOOLEAN : ExecReturn(l, failed)
    \/ \E l \in LoopIds : LoopIterate(l)

LiveSpec == Init /\ [][LiveNext]_vars /\ WF_vars(Tick) /\ WF_vars(LoopThreadStep)


\* A run of start(): the dispatch loop it starts, its monitor and the stop at its end.
HostInit == Init

HostNext ==
    \/ \E d \in Durations, has_script \in BOOLEAN, fails \in Failures :
          Start(d, has_script, fails)
    \/ MonitorBegin
    \/ MonitorWake
    \/ \E v \in HookValues : MonitorHookReturn(v)
    \/ StartFinally
    \/ \E l \in LoopIds : LoopStart(l)
    \/ \E l \in LoopIds : LoopCancelled(l)

HostSpec == HostInit /\ [][HostNext]_vars

\* Refresh-states polling: the script starts and stops it, adds events itself and
\* polls the buffer; the polling threads fetch and add events.
RefreshInit ==
    /\ Init!1 /\ Init!2 /\ Init!3 /\ Init!4 /\ Init!5 /\ Init!6 /\ Init!7 /\ Init!8
    /\ Init!9 /\ Init!10 /\ Init!11 /\ Init!12
    /\ hook_defined \in BOOLEAN
    /\ Init!14 /\ Init!15 /\ Init!16 /\ Init!17 /\ Init!18 /\ Init!19 /\ Init!20 /\ Init!21
    /\ Init!22 /\ Init!23 /\ Init!24 /\ Init!25 /\ Init!26

RefreshNext ==
    \/ \E joined \in BOOLEAN : PollRefreshStates(joined)
    \/ StopRefreshStates
    \/ \E w \in WorkerIds : WorkerBegin(w)
    \/ \E w \in WorkerIds : WorkerRequest(w)
    \/ \E w \in WorkerIds : WorkerExit(w)
    \/ \E w \in WorkerIds, r \in ReachableResponses : WorkerResponse(w, r)
    \/ \E w \in WorkerIds : AddEvent(w)
    \/ \E w \in WorkerIds : AddEventAppend(w)
    \/ \E w \in WorkerIds : AddEventHookReturn(w)
    \/ \E e \in Events : AddEventFromLua(e, MaxAddEvents)
    \/ AddEventFromLuaAppend
    \/ GetEvents

RefreshSpec == RefreshInit /\ [][RefreshNext]_vars

\* One polling thread and the ends of its requests.
WorkerNext ==
    \/ \E w \in WorkerIds : WorkerRequest(w)
    \/ \E w \in WorkerIds, r \in Responses : WorkerResponse(w, r)
    \/ \E w \in WorkerIds : AddEvent(w)
    \/ \E w \in WorkerIds : AddEventAppend(w)
    \/ \E w \in WorkerIds : AddEventHookReturn(w)

WorkerSpec == EngineInit /\ [][WorkerNext]_vars

\* The script fills the event buffer beyond its capacity.
FillNext ==
    \/ \E e \in Events : AddEventFromLua(e, MaxFill)
    \/ AddEventFromLuaAppend

FillSpec == Init /\ [][FillNext]_vars

\* ------------------------------------------------------------------ claims
InPutTasks(n) == \E i \in 1..Len(put_tasks) : put_tasks[i].src = n

\* C1: every timer that is created and never cancelled puts its event on the queue
\* only once its delay has elapsed, puts exactly one, and the event is handed to
\* the engine at most once; a timer whose task has ended has queued its event.
\* Stated for runs in which no id is reused while it is in the live set.
C1_UncancelledTimerFiresOnce ==
    \A t \in TaskIds :
        (~dup_create /\ tasks[t].ctrue = 0) =>
            /\ tasks[t].enq <= 1
            /\ tasks[t].disp <= tasks[t].enq
            /\ (tasks[t].enq = 1 => tasks[t].remaining = 0)
            /\ (tasks[t].st = "done" => tasks[t].enq = 1)

\* C2: at most one call on the engine handle is in flight, counting the dispatch
\* loops, the run monitor's hook and the polling worker's event hook.
C2_OneInvocationInFlight == inflight <= 1

\* C3: every queue_lua_callback call leads to exactly one queue entry and at most
\* one engine invocation; no call is lost and none is duplicated.
C3_SubmissionsNeitherLostNorDuplicated ==
    \A n \in 1..Len(subs) :
        /\ subs[n].outcome = "scheduled"
        /\ subs[n].enq + (IF InPutTasks(n) THEN 1 ELSE 0) = 1
        /\ subs[n].disp <= subs[n].enq

\* C4: for a timer on which a cancel was issued before its delay elapsed, once the
\* timer's task has ended exactly one of the two happened: its event was queued
\* for dispatch, or python_cancel_timer returned True.
C4_ExpiryXorCancel ==
    \A t \in TaskIds :
        (~dup_create /\ tasks[t].st = "done" /\ (tasks[t].cfalse \/ tasks[t].ctrue > 0)) =>
            ((tasks[t].enq >= 1) # (tasks[t].ctrue >= 1))

\* C5: python_cancel_timer returns True for a timer that is pending (created,
\* not expired, not cancelled) and at most once for any timer.
C5_CancelTrueIffLive ==
    \A t \in TaskIds :
        ~dup_create => (~tasks[t].cfalse /\ tasks[t].ctrue <= 1)

\* C6: a timer for which python_cancel_timer returned True puts no entry on the
\* queue, releases no semaphore unit and is never handed to the engine.
C6_CancelledTimerIsSilent ==
    \A t \in TaskIds :
        tasks[t].ctrue >= 1 => (tasks[t].enq = 0 /\ tasks[t].disp = 0)

\* The cancel came when the delay had elapsed and the expiry step had not run;
\* the task has ended since.
C6_Witness ==
    \E t \in TaskIds :
        tasks[t].ctrue = 1 /\ tasks[t].st = "done" /\ tasks[t].remaining = 0

\* C7: the queue is first in, first out: a step that changes it either appends one
\* entry at its tail or removes its oldest entry, which is the one handed to the
\* engine in that step.
FifoStep ==
    callback_queue' # callback_queue =>
        \/ /\ Len(callback_queue') = Len(callback_queue) + 1
           /\ SubSeq(callback_queue', 1, Len(callback_queue)) = callback_queue
        \/ /\ callback_queue # <<>>
           /\ callback_queue' = Tail(callback_queue)
           /\ cur' \in 1..Len(loops')
           /\ loops'[cur'].pc = "exec"
           /\ loops'[cur'].ev = Head(callback_queue)
           /\ inflight' = inflight + 1

C7_DispatchInEnqueueOrder == [][FifoStep]_vars

\* A timer event is in the engine while a callback event queued after it waits,
\* or the other way round.
C7_Witness ==
    \E l \in LoopIds :
        /\ loops[l].pc = "exec"
        /\ callback_queue # <<>>
        /\ loops[l].ev.type # callback_queue[1].type

\* C8: once an engine invocation has raised, every event that is on the queue, or
\* gets there later, is still handed to the engine.
C8_FailureDoesNotStopDispatch ==
    /\ \A t \in 1..MaxEvents :
          (raised /\ t \in TaskIds /\ tasks[t].enq = 1)
              ~> (t \in TaskIds /\ tasks[t].disp = 1)
    /\ \A n \in 1..MaxEvents :
          (raised /\ n \in 1..Len(subs) /\ subs[n].enq = 1)
              ~> (n \in 1..Len(subs) /\ subs[n].disp = 1)

\* An invocation has raised, that loop task is back waiting for the semaphore and
\* an event is on the queue.
C8_Witness ==
    /\ raised
    /\ callback_queue # <<>>
    /\ cur = 0
    /\ \E l \in LoopIds : loops[l].pc = "acquire"

\* Units of the semaphore handed to a suspended loop task that has not resumed.
GrantedUnits ==
    Cardinality({l \in LoopIds : loops[l].pc = "acquire" /\ loops[l].fut = "granted"})

\* C9 as stated: the semaphore's count is never below the number of queue entries.
C9_CountCoversQueue == sem_value >= Len(callback_queue)

\* C9 amended: the count plus the units release() already handed to a waiting
\* loop task is never below the number of queue entries.
C9_CountPlusGrantedCoversQueue == sem_value + GrantedUnits >= Len(callback_queue)

\* The count is below the queue length because a unit was handed over.
C9_Witness == sem_value < Len(callback_queue) /\ GrantedUnits > 0

\* C10: no loop task is ever suspended in callback_queue.get().
C10_DequeueNeverBlocks == \A l \in LoopIds : loops[l].pc # "get"

\* Two loop tasks exist; one resumed from its wait on the semaphore and dequeued,
\* the other is waiting.
C10_Witness ==
    /\ Len(loops) = 2
    /\ \E l, m \in LoopIds :
          /\ loops[l].pc = "exec"
          /\ loops[m].pc = "acquire"
          /\ sem_value = 0

\* A step in which stop() cancels the loop task that callback_task refers to.
StopActs ==
    /\ callback_task # NoTask
    /\ loops' # loops
    /\ loops' = TaskCancel(loops, callback_task)

\* C11: when stop() has run, the callback queue is empty, no id is left in the
\* live timer set and every timer task has ended or has been cancelled.
C11_StopLeavesNothingPending ==
    [][StopActs =>
          /\ callback_queue' = <<>>
          /\ \A id \in Ids : timer_tasks'[id] = NoTask
          /\ \A t \in TaskIds : tasks'[t].st = "done" \/ tasks'[t].must_cancel]_vars

\* stop() has cancelled the loop task callback_task refers to and no loop task
\* has been started since.
StoppedNow ==
    /\ callback_task # NoTask
    /\ loops[callback_task].pc = "cancelled" \/ loops[callback_task].must_cancel

\* A step of python_timer or queue_lua_callback.
SubmitStep == Len(tasks') > Len(tasks) \/ Len(subs') > Len(subs)

\* C12: a python_timer or queue_lua_callback call made after stop() does not
\* raise into its caller and does not create a dispatch loop task.
C12_SubmitAfterStopIsNoOp ==
    [][(StoppedNow /\ SubmitStep) =>
          /\ Len(loops') = Len(loops)
          /\ Len(subs') > Len(subs) => subs'[Len(subs')].outcome # "raised"]_vars

\* C13: python_timer with an id that is in the live timer set creates no timer
\* task, and the id stays bound to the timer it was bound to.
C13_LiveIdIsRejected ==
    [][\A id \in Ids :
          timer_tasks[id] # NoTask =>
              /\ ~(Len(tasks') > Len(tasks) /\ tasks'[Len(tasks')].id = id)
              /\ timer_tasks'[id] \in {timer_tasks[id], NoTask}]_vars

\* C14: the polling worker never calls into the script engine.
C14_WorkerNeverEntersEngine == \A w \in WorkerIds : workers[w].pc # "hook"

\* C15: a queue_lua_callback call made on a thread other than the event-loop
\* thread does not raise and leads to exactly one queue entry, like a call made
\* on the event-loop thread.
C15_ThreadSubmissionIsQueued ==
    \A n \in 1..Len(subs) :
        subs[n].thread =>
            /\ subs[n].outcome = "scheduled"
            /\ subs[n].enq + (IF InPutTasks(n) THEN 1 ELSE 0) = 1

\* C16: a dispatch loop task that has not finished is the one callback_task
\* refers to, so that there is at most one.
C16_SingleConsumer ==
    \A l \in LoopIds : loops[l].pc # "cancelled" => l = callback_task

\* C17: a True from python_cancel_timer and the expiry's enqueue each find the
\* id in the live timer set and remove it in the same step, they exclude each
\* other for one timer, and a timer task that ends finding its id gone leaves the
\* queue as it is.
CheckAndRemove ==
    \A t \in TaskIds :
        LET id == tasks[t].id
        IN  /\ tasks'[t].ctrue > tasks[t].ctrue =>
                  /\ timer_tasks[id] = t
                  /\ timer_tasks'[id] = NoTask
                  /\ tasks[t].enq = 0
                  /\ tasks[t].st # "done"
            /\ tasks'[t].enq > tasks[t].enq =>
                  /\ timer_tasks[id] # NoTask
                  /\ timer_tasks'[id] = NoTask
                  /\ tasks[t].ctrue = 0
            /\ (tasks[t].st # "done" /\ tasks'[t].st = "done" /\ timer_tasks[id] = NoTask) =>
                  callback_queue' = callback_queue

C17_CheckAndRemoveIsAtomic == [][CheckAndRemove]_vars

\* The delay has elapsed, the expiry step has not run yet and python_cancel_timer
\* has just removed the id: the cancel won.
C17_Witness ==
    \E t \in TaskIds :
        /\ tasks[t].st = "sleeping"
        /\ tasks[t].remaining = 0
        /\ tasks[t].must_cancel
        /\ tasks[t].ctrue = 1
        /\ timer_tasks[tasks[t].id] = NoTask

\* C20: whenever a call on the engine handle is in flight, it was made by a
\* dispatch loop task inside execute_lua_callback, and by nothing else.
C20_OnlyDispatchLoopEntersEngine ==
    inflight > 0 =>
        /\ \A w \in WorkerIds : workers[w].pc # "hook"
        /\ cur \in LoopIds
        /\ loops[cur].pc = "exec"

\* C18: stop() does not cut an engine invocation short, and a loop task that
\* stop() has cancelled starts no engine invocation.
CancelledLoopIsQuiet ==
    \A l \in LoopIds :
        /\ (loops[l].pc = "exec" /\ loops'[l].pc # "exec") =>
               (cur = l /\ loops'[l].pc = "top" /\ inflight' = inflight - 1)
        /\ (loops[l].pc # "exec" /\ loops'[l].pc = "exec") => ~loops[l].must_cancel

C18_StopLetsInvocationFinish == [][CancelledLoopIsQuiet]_vars

\* C19: a python_cancel_timer call for an id whose timer has put its event on
\* the queue, the event not being dispatched yet, returns False (no timer is
\* cancelled by it) and leaves the live timer set, the queue and the semaphore's
\* count as they are.
LateCancelIsNoOp ==
    \A t \in TaskIds :
        (tasks'[t].clate /\ ~tasks[t].clate) =>
            /\ ~CancelResult(timer_tasks, tasks[t].id)
            /\ timer_tasks' = timer_tasks
            /\ callback_queue' = callback_queue
            /\ sem_value' = sem_value
            /\ \A u \in TaskIds :
                  /\ tasks'[u].ctrue = tasks[u].ctrue
                  /\ tasks'[u].must_cancel = tasks[u].must_cancel

C19_CancelAfterEnqueueIsNoOp == [][LateCancelIsNoOp]_vars

\* The cancel came while the timer's event was on the queue, and the event is
\* still there.
C19_Witness ==
    \E t \in TaskIds :
        /\ tasks[t].clate
        /\ tasks[t].disp = 0
        /\ \E i \in 1..Len(callback_queue) : callback_queue[i].src = t

\* Units of the semaphore that are there to be taken: its count and the units
\* handed to loop tasks that have not resumed yet.
Units == sem_value + GrantedUnits

\* C23: a step puts an entry on the callback queue exactly when it releases the
\* semaphore, and it does either once; so releases and enqueues are equal in
\* number over any execution.
ReleasePerEnqueue ==
    /\ Len(callback_queue') > Len(callback_queue) =>
          (Len(callback_queue') = Len(callback_queue) + 1 /\ Units' = Units + 1)
    /\ Units' > Units =>
          (Units' = Units + 1 /\ Len(callback_queue') = Len(callback_queue) + 1)

C23_OneReleasePerEnqueue == [][ReleasePerEnqueue]_vars

\* Two entries were put on the queue before any loop task took a unit.
C23_Witness == Len(callback_queue) = 2 /\ sem_value = 2

\* C24: a dispatch loop task enters an engine invocation by taking one unit and
\* the oldest queue entry; it leaves it, whether the invocation returned or
\* raised, for the top of the loop, from where it takes the next unit or waits;
\* no entry leaves the queue while an invocation is in flight.
TwoStateLoop ==
    /\ \A l \in LoopIds :
          /\ (loops[l].pc # "exec" /\ loops'[l].pc = "exec") =>
                /\ Units' = Units - 1
                /\ callback_queue # <<>>
                /\ callback_queue' = Tail(callback_queue)
                /\ loops'[l].ev = Head(callback_queue)
                /\ inflight' = inflight + 1
          /\ (loops[l].pc = "exec" /\ loops'[l].pc # "exec") =>
                /\ loops'[l].pc = "top"
                /\ callback_queue' = callback_queue
                /\ Units' = Units
          /\ (loops[l].pc = "top" /\ loops'[l].pc # "top") =>
                loops'[l].pc \in {"exec", "acquire"}
          /\ loops[l].pc = "exec" => Len(callback_queue') >= Len(callback_queue)
    /\ Cardinality({l \in LoopIds : loops[l].pc = "exec"}) <= 1

C24_LoopIsTwoStateMachine == [][TwoStateLoop]_vars

\* After an invocation that raised, a loop task is inside the next invocation.
C24_Witness == raised /\ \E l \in LoopIds : loops[l].pc = "exec" /\ cur = l

\* C26: after python_timer or queue_lua_callback, called on the event-loop
\* thread, callback_task refers to a loop task that has not finished; a loop task
\* that had not finished is kept and no other is created.
LazyStart ==
    (SubmitStep /\ (Len(subs') > Len(subs) => ~subs'[Len(subs')].thread)) =>
        /\ callback_task' # NoTask
        /\ loops'[callback_task'].pc # "cancelled"
        /\ (callback_task # NoTask /\ loops[callback_task].pc # "cancelled") =>
              (callback_task' = callback_task /\ Len(loops') = Len(loops))

C26_LoopStartedLazily == [][LazyStart]_vars

\* stop() ended the first loop task and a submission made a second one.
C26_Witness ==
    /\ Len(loops) = 2
    /\ loops[1].pc = "cancelled"
    /\ callback_task = 2
    /\ loops[2].pc = "new"
    /\ \/ \E t \in TaskIds : tasks[t].st = "new"
       \/ \E n \in 1..Len(subs) : InPutTasks(n)

\* C28: a timer task that ends takes no entry out of the live set but its own;
\* stated for runs in which no id is reused while it is in the live set.
C28_CleanupSparesNewTimer ==
    [][\A t \in TaskIds :
          (~dup_create' /\ tasks[t].st # "done" /\ tasks'[t].st = "done") =>
              \A id \in Ids :
                  timer_tasks[id] # t => timer_tasks'[id] = timer_tasks[id]]_vars

\* An id in the live set refers to a timer task that has not ended and that is
\* the last one created for the id.
LiveSetRefersToLatest(tt, T) ==
    \A id \in Ids :
        tt[id] # NoTask =>
            /\ tt[id] \in 1..Len(T)
            /\ T[tt[id]].id = id
            /\ T[tt[id]].st # "done"
            /\ \A u \in 1..Len(T) : T[u].id = id => u <= tt[id]

\* Timer task t ends in this step.
Ends(t) == tasks[t].st # "done" /\ tasks'[t].st = "done"

\* C29 as stated: every id in the live set refers to the unfinished timer task
\* created last for it, and a timer task that ends leaves the live set without
\* an entry for its id.
C29_LiveSetRefersToLatestWait ==
    [][/\ LiveSetRefersToLatest(timer_tasks', tasks')
       /\ \A t \in TaskIds : Ends(t) => timer_tasks'[tasks[t].id] = NoTask]_vars

\* C29 amended: every id in the live set refers to the unfinished timer task
\* created last for it; a timer task that ends after its wait began leaves the
\* live set without an entry for its id, and one that is cancelled before its
\* first step leaves the live set as it is.
C29_EndedWaitLeavesNoEntryOnceBegun ==
    [][/\ LiveSetRefersToLatest(timer_tasks', tasks')
       /\ \A t \in TaskIds :
             Ends(t) =>
                 IF tasks[t].st = "new"
                 THEN timer_tasks' = timer_tasks
                 ELSE timer_tasks'[tasks[t].id] = NoTask]_vars

\* An id was cancelled before its task ran and used again; the first task has
\* ended and the live set refers to the second.
C29_Witness ==
    /\ Len(tasks) = 2
    /\ tasks[1].id = tasks[2].id
    /\ tasks[1].st = "done"
    /\ tasks[1].ctrue = 1
    /\ tasks[1].remaining = 0
    /\ tasks[2].st = "new"
    /\ timer_tasks[tasks[2].id] = 2

\* A step of python_cancel_timer that the history shows: it returned True for
\* timer task t, or it returned False and was recorded on t.
CancelTrueStep(t) == tasks'[t].ctrue > tasks[t].ctrue
CancelFalseStep(t) ==
    /\ tasks'[t].ctrue = tasks[t].ctrue
    /\ \/ tasks'[t].cfalse /\ ~tasks[t].cfalse
       \/ tasks'[t].clate /\ ~tasks[t].clate

\* C30: python_cancel_timer leaves the callback queue, the semaphore and the
\* loop tasks alone; it takes at most the entry of its id out of the live set;
\* when it returns False, the live set and every timer task are as before.
CancelFrame ==
    \A t \in TaskIds :
        /\ (CancelTrueStep(t) \/ CancelFalseStep(t)) =>
              /\ UNCHANGED <<callback_queue, sem_value, sem_waiters, getters, loops,
                             callback_task, put_tasks, cur, inflight>>
              /\ \A id \in Ids : id # tasks[t].id => timer_tasks'[id] = timer_tasks[id]
        /\ (CancelFalseStep(t) /\ \A u \in TaskIds : ~CancelTrueStep(u)) =>
              /\ timer_tasks' = timer_tasks
              /\ \A u \in TaskIds :
                    /\ tasks'[u].st = tasks[u].st
                    /\ tasks'[u].must_cancel = tasks[u].must_cancel

C30_CancelTouchesOnlyItsId == [][CancelFrame]_vars

\* A cancel returned True for one id while the timer of the other id was live,
\* and that one still is.
C30_Witness ==
    \E t, u \in TaskIds :
        /\ tasks[t].ctrue = 1
        /\ tasks[u].id # tasks[t].id
        /\ tasks[u].st # "done"
        /\ timer_tasks[tasks[u].id] = u

\* C25: an entry leaves the queue only into an engine invocation made in the same
\* step; the invocation gets the id the producer was given, None as data for a
\* timer and the submitted data for a callback.
RoutedByKind ==
    /\ Len(callback_queue') < Len(callback_queue) =>
          \E l \in LoopIds : loops[l].pc # "exec" /\ loops'[l].pc = "exec"
    /\ \A l \in LoopIds :
          (loops[l].pc # "exec" /\ loops'[l].pc = "exec") =>
              LET ev == Head(callback_queue)
                  call == loops'[l].call
              IN  /\ inflight' = inflight + 1
                  /\ ev.type \in {"timer", "lua_callback"}
                  /\ ev.type = "timer" =>
                        /\ call.callback_id = tasks[ev.src].id
                        /\ call.data = NoneData
                        /\ tasks'[ev.src].disp = tasks[ev.src].disp + 1
                  /\ ev.type = "lua_callback" =>
                        /\ call.callback_id = subs[ev.src].id
                        /\ call.data = subs[ev.src].data
                        /\ subs'[ev.src].disp = subs[ev.src].disp + 1

C25_EventRoutedByKind == [][RoutedByKind]_vars

\* A callback event is inside the engine with its payload.
C25_Witness ==
    \E l \in LoopIds :
        /\ loops[l].pc = "exec"
        /\ loops[l].call.type = "lua_callback"
        /\ loops[l].call.data \in Payloads
        /\ loops[l].call.data # NoneData

\* The event-loop thread is with code that may call the runtime, the dispatcher
\* being idle or inside an engine invocation, and the bounds leave room for one
\* more call.
CanSubmit ==
    /\ \/ cur = 0
       \/ cur = Monitor
       \/ cur \in LoopIds /\ loops[cur].pc = "exec"
    /\ Len(tasks) + Len(subs) < MaxEvents
    /\ (callback_task = NoTask \/ loops[callback_task].pc = "cancelled") => Len(loops) < MaxLoops

\* A python_timer or queue_lua_callback call gives the thread back to its caller
\* with the dispatch loop tasks, the queue and the semaphore where they were.
ReturnsAtOnce ==
    (SubmitStep /\ (Len(subs') > Len(subs) => ~subs'[Len(subs')].thread)) =>
        /\ cur' = cur
        /\ inflight' = inflight
        /\ callback_queue' = callback_queue
        /\ sem_value' = sem_value
        /\ \A l \in LoopIds :
              /\ loops'[l].pc = loops[l].pc
              /\ loops'[l].fut = loops[l].fut
              /\ loops'[l].ev = loops[l].ev

\* C27: python_timer and queue_lua_callback can be called whatever the dispatch
\* loop is doing, inside an engine invocation too, and return to the caller
\* without any step of the dispatch loop.
C27_SubmissionIsFireAndForget ==
    [][/\ CanSubmit =>
             \A id \in Ids :
                 /\ \A d \in Delays : ENABLED PythonTimer(id, d)
                 /\ \A data \in Payloads : ENABLED QueueLuaCallback(id, data)
       /\ ReturnsAtOnce]_vars

\* The script made a call from inside an engine invocation, which goes on.
C27_Witness ==
    \E l \in LoopIds : loops[l].pc = "exec" /\ cur = l /\ loops[l].made = 1

\* C21: start() runs forever exactly when duration is None; for every integer
\* duration d >= 0 the monitor is the bounded one and sleeps at most d seconds.
C21_ForeverOnlyWithoutDuration ==
    run.kind # "none" =>
        /\ (run.kind = "forever") <=> (run.duration = NoDuration)
        /\ (run.duration # NoDuration => Elapsed(run) <= run.duration)

\* C22: once pollRefreshStates has started a worker, a stopRefreshStates call
\* returns true and the worker's polling flag is cleared, so that the worker
\* leaves its loop.
C22_StopRefreshStatesStops ==
    (refresh_thread # NoThread /\ stop_refresh # "none") =>
        /\ stop_refresh = "true"
        /\ ~refresh_running

\* The timer tasks that python_timer calls of the engine invocation in flight created.
InvocationTasks ==
    IF cur \in LoopIds /\ loops[cur].pc = "exec"
    THEN (Len(tasks) - loops[cur].tmade + 1)..Len(tasks)
    ELSE {}

CancelInSameInvocation ==
    \A t \in TaskIds :
        /\ (t \in InvocationTasks /\ LatestTask(tasks[t].id) = t /\ tasks[t].ctrue = 0) =>
              (timer_tasks[tasks[t].id] = t /\ tasks[t].st = "new")
        /\ t \in InvocationTasks => ~CancelFalseStep(t)
        /\ (CancelTrueStep(t) /\ tasks[t].st = "new") => tasks'[t].must_cancel
        /\ (tasks[t].st = "new" /\ tasks[t].must_cancel /\ tasks'[t].st # "new") =>
              (tasks'[t].st = "done" /\ tasks'[t].enq = 0)

\* C31: python_timer has registered the id in the live timer set when it returns: a
\* timer created in the engine invocation in flight is in the live set under its
\* id, with its wait not started; a python_cancel_timer call for it in that
\* invocation does not return False; a timer cancelled before its wait started
\* ends at its first step without putting an event on the queue.
C31_CancelInSameInvocation == [][CancelInSameInvocation]_vars

\* Inside one invocation the script created a timer and cancelled it; its task has
\* not run.
C31_Witness ==
    \E t \in InvocationTasks :
        tasks[t].ctrue = 1 /\ tasks[t].st = "new" /\ tasks[t].must_cancel

\* A step in which loop task l ends.
LoopEnds(l) == loops[l].pc # "cancelled" /\ loops'[l].pc = "cancelled"

StopKeepsEntries ==
    /\ Units = Len(callback_queue)
    /\ Units' = Len(callback_queue')
    /\ (StopActs \/ \E l \in LoopIds : LoopEnds(l)) =>
          (callback_queue' = callback_queue /\ Units' = Units)

\* C32: the entries on the callback queue and the semaphore units that are there
\* to be taken are equal in number in every state; a stop() call and the end of a
\* cancelled loop task leave the queue and that number as they are, also when the
\* cancellation reaches a loop task to which a unit had been handed.
C32_StopKeepsEntries == [][StopKeepsEntries]_vars

\* A loop task has ended, an entry with its unit is on the queue, and a new loop
\* task has been created that has not run yet.
C32_Witness ==
    /\ callback_queue # <<>>
    /\ sem_value = Len(callback_queue)
    /\ callback_task # NoTask
    /\ loops[callback_task].pc = "new"
    /\ \E l \in LoopIds : loops[l].pc = "cancelled"

\* C33: when start() has exited, by its early return, by an exception or at the end
\* of its monitor, stop() has been called: the loop task callback_task refers to is
\* cancelled.  Called with nothing to execute, it has neither initialized the engine
\* nor created a dispatch loop task.
C33_StartAlwaysStops ==
    run.phase = "stopped" =>
        /\ callback_task # NoTask =>
              (loops[callback_task].must_cancel \/ loops[callback_task].pc = "cancelled")
        /\ ~run.script => (~run.init /\ loops = <<>> /\ callback_task = NoTask)

\* The script raised: start has exited and the loop task it had started is
\* cancelled before its first step.
C33_Witness ==
    /\ run.phase = "stopped"
    /\ run.script
    /\ run.kind = "none"
    /\ callback_task = 1
    /\ loops[1].pc = "new"
    /\ loops[1].must_cancel

\* The values of the hook on which the monitor stops: false, and the number 0,
\* which Python's bool() takes for false.
FalseValue(v) == v \in {"false", "zero"}

\* C34: run_for_duration(n) makes at most n checks; a monitor is over exactly when
\* its last check found a false value or, for run_for_duration, when the n checks
\* are made; a hook that is absent, returns nil or raises keeps it running.
C34_MonitorEndsOnFalseOrAfterN ==
    run.kind # "none" =>
        /\ run.kind = "duration" => run.i <= run.duration
        /\ run.phase \in {"ended", "stopped"} =>
              (FalseValue(run.hook) \/ (run.kind = "duration" /\ run.i = run.duration))
        /\ (run.phase = "sleeping" /\ run.i > 0) =>
              (~FalseValue(run.hook) /\ (run.kind = "duration" => run.i < run.duration))

\* run_for_duration(2) is over after one check, at which the hook returned false.
C34_Witness ==
    /\ run.kind = "duration"
    /\ run.phase = "ended"
    /\ run.i < run.duration
    /\ run.hook = "false"

\* A thread that pollRefreshStates has told to stop and replaced does not send
\* another request.
ReplacedWorkerSendsNothing ==
    \A w \in WorkerIds :
        (w # refresh_thread /\ workers[w].told /\ workers[w].pc = "idle") =>
            workers'[w].pc # "request"

\* C35: once pollRefreshStates has started a new polling thread, the thread it
\* replaced leaves its loop: it never sends another request alongside the new one.
C35_ReplacedWorkerLeaves == [][ReplacedWorkerSendsNothing]_vars

\* The number of entries whose addEvent call has left its locked section
Stored == event_count - (IF events_lock = Free THEN 0 ELSE 1)

\* C36: with addEvent called concurrently by polling threads and by the script, the
\* stored entries carry the counters 1, 2, 3, ... without a repetition or a gap,
\* the buffer is ordered by counter, and one counter is given out per call.
C36_CountersDistinctAndOrdered ==
    /\ \A i \in 1..Len(events) : events[i].last = i
    /\ Len(events) = Stored
    /\ events_lock # Free => event_count = Len(events) + 1

\* One entry is stored and a polling thread is in the locked section of a second
\* addEvent call.
C36_Witness ==
    /\ Len(events) >= 1
    /\ \E w \in WorkerIds : workers[w].pc = "append" /\ events_lock = w

\* The counters a caller of getEvents can pass
Counters == 0..(MaxAddEvents + MaxWorkers + 1)

\* The positions of the buffer whose counter is above c
Above(c) == {i \in 1..Len(events) : events[i].last > c}

\* C37: for every counter, getEvents returns exactly the buffered events with a
\* greater counter, in buffer order, and 'last' is the counter of the newest
\* buffered entry, 0 for an empty buffer; a script that polls with the 'last' it
\* was given has received every buffered entry up to that 'last' exactly once.
C37_GetEventsSinceCounter ==
    /\ \A c \in Counters :
          LET r == GetEventsResult(events, c)
              skipped == Len(events) - Cardinality(Above(c))
          IN  /\ Len(r.events) = Cardinality(Above(c))
              /\ \A j \in 1..Len(r.events) :
                    /\ skipped + j \in Above(c)
                    /\ r.events[j] = events[skipped + j].event
              /\ r.last = IF events = <<>> THEN 0 ELSE events[Len(events)].last
              /\ \A i \in 1..Len(events) : events[i].last <= r.last
    /\ Len(received) = poll_last
    /\ \A i \in 1..Len(received) : received[i] = i
    /\ \A i \in 1..Len(events) :
          events[i].last <= poll_last => \E k \in 1..Len(received) : received[k] = events[i].last

\* The script has polled and been given an entry, and a newer entry is buffered
\* for its next call.
C37_Witness ==
    /\ poll_last >= 1
    /\ Len(received) >= 1
    /\ Len(events) > poll_last

\* The addEvent calls that are complete
Added == event_count - (IF lua_add = "idle" THEN 0 ELSE 1)

\* C38: the buffer never holds more than 1000 entries; after n addEvent calls it
\* holds the min(n, 1000) most recent entries, oldest first.
C38_BufferKeepsMostRecent ==
    /\ Len(events) <= MAX_EVENTS
    /\ Len(events) = (IF Added < MAX_EVENTS THEN Added ELSE MAX_EVENTS)
    /\ \A i \in 1..Len(events) : events[i].last = Added - Len(events) + i

\* More than 1000 addEvent calls are complete: the first entries are discarded.
C38_Witness ==
    /\ lua_add = "idle"
    /\ event_count > MAX_EVENTS
    /\ Len(events) = MAX_EVENTS
    /\ events[1].last = event_count - MAX_EVENTS + 1

\* C39: a polling thread leaves its loop on a 401 response and on a connection
\* error that brings its count above 5, so never has more than 5 connection errors
\* in a row behind it while it runs on; a 200 response sets the count to 0;
\* timeouts, other statuses and other errors leave the count as it is and do not
\* end the loop; a thread that has left has marked polling as not running.
C39_WorkerExitConditions ==
    \A w \in WorkerIds :
        /\ workers[w].pc # "exited" => workers[w].streak <= 5
        /\ workers[w].pc = "exited" => ~refresh_running
        /\ workers[w].pc = "request" =>
              \A r \in Responses :
                  LET t == Respond(workers[w], r)
                  IN  /\ r = "401" => t.pc = "exited"
                      /\ r \in {"200", "200 event"} => (t.retries = 0 /\ t.pc # "exited")
                      /\ r \in {"500", "timeout", "error"} =>
                            (t.retries = workers[w].retries /\ t.pc # "exited")
                      /\ r = "connection" =>
                            /\ t.retries = workers[w].retries + 1
                            /\ (t.pc = "exited") <=> (t.retries > 5)

\* A polling thread has left its loop at its sixth connection error in a row.
C39_Witness ==
    \E w \in WorkerIds :
        /\ workers[w].pc = "exited"
        /\ workers[w].retries = 6
        /\ workers[w].streak = 6
        /\ ~refresh_running

====
